---- MODULE Spec2Model ----
(***************************************************************************)
(* Model of src/content.js: a content script that rewrites the result      *)
(* links of a search page so that they open in a new tab.                   *)
(*                                                                          *)
(* The state is the part of the page the script reads and writes (the       *)
(* anchors, their href / target / rel / classList), the browser's timer     *)
(* table, the MutationObserver's record queue and the script's one          *)
(* variable, scrollTimeout.  Strings are sequences of tokens, so that       *)
(* String.includes and the attribute selectors [href*="..."] are substring  *)
(* searches and link.href is the resolution of the href attribute against   *)
(* the document's URL.  Time is counted in steps of Quantum milliseconds.   *)
(***************************************************************************)
EXTENDS Integers, Sequences, FiniteSets, Bags, TLC

\* ------------------------------------------------------------------ bounds
NumElems == 1        \* anchors the page may hold
MaxTimers == 2       \* timers pending at once
MaxRecords == 2      \* mutation records queued before the observer runs

\* --------------------------------------------------------------- constants
MutationDelay == 100 \* setTimeout(modifySearchResults, 100)
ScrollDelay == 200   \* setTimeout(modifySearchResults, 200)
Quantum == MutationDelay \div 2

Elems == 1..NumElems

Marker == "modified-by-extension"
Blank == "_blank"
NoOpener == "noopener noreferrer"

\* ----------------------------------------------------------------- strings
\* s.includes(sub), for strings as token sequences
Includes(s, sub) ==
    \E i \in 1..(Len(s) - Len(sub) + 1) : SubSeq(s, i, i + Len(sub) - 1) = sub

SearchEndpoint == <<"google.com", "/search">>
Fragment == <<"#">>
UrlQ == <<"/url", "?q=">>
ImgRes == <<"/imgres">>

\* the URL of the results page the script is injected into
Origin == <<"https://", "www.", "google.com">>
DocumentURL == Origin \o <<"/search", "?q=", "x">>

\* href attributes an anchor of the page may carry; present = FALSE is an
\* anchor without the attribute
NoHref == [present |-> FALSE, value |-> <<>>]
Href(v) == [present |-> TRUE, value |-> v]
HrefAttrs ==
    { NoHref,
      Href(<<"https://", "example.com", "/page">>),
      Href(<<"/url", "?q=", "x">>),
      Href(<<"/search", "?q=", "x">>),
      Href(<<"https://", "example.com", "/page", "#", "section">>),
      Href(<<"/imgres", "?q=", "x">>),
      Href(<<"/imgres", "?q=", "https://", "www.", "google.com", "/search">>),
      Href(<<"/imgres", "#", "section">>) }

\* link.href: the attribute resolved against the document's URL; "" when the
\* attribute is absent
ResolvedHref(a) ==
    IF ~a.present THEN <<>>
    ELSE IF a.value # <<>> /\ Head(a.value) = "https://" THEN a.value
    ELSE IF a.value # <<>> /\ Head(a.value) # "#" THEN Origin \o a.value
    ELSE DocumentURL \o a.value

\* a[href*="sub"]
AttrContains(a, sub) == a.present /\ Includes(a.value, sub)

\* ------------------------------------------------------------------- state
VARIABLES
    pc,             \* position of the script's top-level code
    links,          \* links[e]: the anchor e and its attributes
    writes,         \* writes[e]: how many times the script has mutated e
    observers,      \* number of observer.observe registrations
    listeners,      \* number of scroll listeners
    records,        \* mutation records queued for the observer
    timers,         \* the browser's pending timers
    scrollTimeout,  \* the script's variable: handle of the last scroll timer
    sinceAppend,    \* sinceAppend[e]: ms since e, unprocessed, was last
                    \* appended (capped)
    sinceScroll,    \* ms since the last scroll event, while its rescan is
                    \* still to come (capped)
    burst,          \* scroll events since the last scroll rescan (capped)
    runs            \* modifySearchResults runs in a row, no other step
                    \* between them (capped)

vars == <<pc, links, writes, observers, listeners, records, timers,
          scrollTimeout, sinceAppend, sinceScroll, burst, runs>>

\* sinceAppend and sinceScroll stop counting at these values, which stand for
\* "longer ago than the delay" and for "never"
AppendCap == MutationDelay + Quantum
ScrollCap == ScrollDelay + Quantum

Min(a, b) == IF a < b THEN a ELSE b

\* burst and runs record "none", "one" and "more than one"
Capped(n) == Min(n, 2)

\* ------------------------------------------------------ mutation records
\* A variant of the options that also watches attributes.
ObserverOptionsWithAttributes ==
    [childList |-> TRUE, subtree |-> TRUE, attributes |-> TRUE]

\* the options of observer.observe(document.body, ...)
ObserverOptions == [childList |-> TRUE, subtree |-> TRUE, attributes |-> FALSE]

ChildListRecord(added, removed) ==
    [type |-> "childList", addedNodes |-> added, removedNodes |-> removed]

AttributeRecord == [type |-> "attributes", addedNodes |-> 0, removedNodes |-> 0]

\* n attribute records, one for each attribute written
AttributeRecords(n) == [i \in 1..n |-> AttributeRecord]

\* the observer is told of a mutation under document.body when it is
\* registered and its options name the mutation's type
Watched(m) == ObserverOptions[m.type]

Observed(ms) == IF observers > 0 THEN SelectSeq(ms, Watched) ELSE <<>>

\* ------------------------------------------------------ modifySearchResults
\* document.querySelectorAll('a[href*="/url?q="], a[jsname], .g h3 a, .yuRUbf a')
InSearchLinks(l) ==
    l.inDoc /\ (AttrContains(l.attr, UrlQ) \/ l.structural)

\* document.querySelectorAll('a[href*="/imgres"]')
InImageLinks(l) == l.inDoc /\ AttrContains(l.attr, ImgRes)

HasMarker(l) == Marker \in l.classList

\* Variants of the first forEach's condition, each without one of its four
\* conjuncts, and one that tests the target attribute in place of the marker.
Pass1EligibleNoHref(l) ==
    /\ ~Includes(ResolvedHref(l.attr), SearchEndpoint)
    /\ ~Includes(ResolvedHref(l.attr), Fragment)
    /\ ~HasMarker(l)

Pass1EligibleNoSelf(l) ==
    /\ ResolvedHref(l.attr) # <<>>
    /\ ~Includes(ResolvedHref(l.attr), Fragment)
    /\ ~HasMarker(l)

Pass1EligibleNoFragment(l) ==
    /\ ResolvedHref(l.attr) # <<>>
    /\ ~Includes(ResolvedHref(l.attr), SearchEndpoint)
    /\ ~HasMarker(l)

Pass1EligibleNoMarker(l) ==
    /\ ResolvedHref(l.attr) # <<>>
    /\ ~Includes(ResolvedHref(l.attr), SearchEndpoint)
    /\ ~Includes(ResolvedHref(l.attr), Fragment)

Pass1EligibleByTarget(l) ==
    /\ ResolvedHref(l.attr) # <<>>
    /\ ~Includes(ResolvedHref(l.attr), SearchEndpoint)
    /\ ~Includes(ResolvedHref(l.attr), Fragment)
    /\ l.target # Blank

\* the condition of the first forEach
Pass1Eligible(l) ==
    /\ ResolvedHref(l.attr) # <<>>
    /\ ~Includes(ResolvedHref(l.attr), SearchEndpoint)
    /\ ~Includes(ResolvedHref(l.attr), Fragment)
    /\ ~HasMarker(l)

\* Variants of the second forEach's condition: one without the marker test,
\* one that also applies the first forEach's URL filter.
Pass2EligibleAlways(l) == TRUE

Pass2EligibleFiltered(l) == Pass1Eligible(l)

\* the condition of the second forEach
Pass2Eligible(l) == ~HasMarker(l)

\* A variant of the assignments that also replaces the href.
MutateUnwrapsHref(l) ==
    [l EXCEPT !.attr = Href(<<"https://", "example.com", "/page">>),
              !.target = Blank, !.rel = NoOpener,
              !.classList = l.classList \cup {Marker}]

\* A variant of the assignments that leaves rel alone.
MutateNoRel(l) ==
    [l EXCEPT !.target = Blank, !.classList = l.classList \cup {Marker}]

\* the three assignments made to an eligible link
Mutate(l) ==
    [l EXCEPT !.target = Blank, !.rel = NoOpener,
              !.classList = l.classList \cup {Marker}]

Pass1(d) ==
    [e \in Elems |->
        IF InSearchLinks(d[e]) /\ Pass1Eligible(d[e]) THEN Mutate(d[e]) ELSE d[e]]

Pass2(d) ==
    [e \in Elems |->
        IF InImageLinks(d[e]) /\ Pass2Eligible(d[e]) THEN Mutate(d[e]) ELSE d[e]]

modifySearchResults(d) == Pass2(Pass1(d))

\* how many times one run mutates each element
Pass1Writes(d) ==
    [e \in Elems |-> IF InSearchLinks(d[e]) /\ Pass1Eligible(d[e]) THEN 1 ELSE 0]

Pass2Writes(d) ==
    [e \in Elems |-> IF InImageLinks(d[e]) /\ Pass2Eligible(d[e]) THEN 1 ELSE 0]

RunWrites(d) == [e \in Elems |-> Pass1Writes(d)[e] + Pass2Writes(Pass1(d))[e]]

RECURSIVE Sum(_, _)
Sum(f, S) ==
    IF S = {} THEN 0
    ELSE LET x == CHOOSE y \in S : TRUE IN f[x] + Sum(f, S \ {x})

\* a run writes target, rel and class of each element it mutates
AttributesWritten(d) == 3 * Sum(RunWrites(d), Elems)

\* the effect of one call of modifySearchResults on the state
Rescan ==
    /\ links' = modifySearchResults(links)
    /\ writes' = [e \in Elems |-> writes[e] + RunWrites(links)[e]]
    /\ records' = records \o Observed(AttributeRecords(AttributesWritten(links)))
    /\ runs' = Capped(runs + 1)

\* -------------------------------------------------------------------- Init
LinkInit ==
    [inDoc : BOOLEAN, attr : HrefAttrs, structural : BOOLEAN,
     target : {""}, rel : {""}, classList : {{}}]

Init ==
    /\ pc = "scan"
    /\ links \in [Elems -> LinkInit]
    /\ writes = [e \in Elems |-> 0]
    /\ observers = 0
    /\ listeners = 0
    /\ records = <<>>
    /\ timers = EmptyBag
    /\ scrollTimeout = "undefined"
    /\ sinceAppend = [e \in Elems |-> AppendCap]
    /\ sinceScroll = ScrollCap
    /\ burst = 0
    /\ runs = 0

\* ------------------------------------------------------------ top-level code
\* A variant of the script without the call at load.
InitialScanSkipped ==
    /\ pc = "scan"
    /\ pc' = "observe"
    /\ UNCHANGED <<links, writes, observers, listeners, records, timers,
                   scrollTimeout, sinceAppend, sinceScroll, burst, runs>>

\* modifySearchResults();
InitialScan ==
    /\ pc = "scan"
    /\ Rescan
    /\ pc' = "observe"
    /\ UNCHANGED <<observers, listeners, timers, scrollTimeout,
                   sinceAppend, sinceScroll, burst>>

\* observer.observe(document.body, {childList: true, subtree: true});
Observe ==
    /\ pc = "observe"
    /\ observers' = observers + 1
    /\ pc' = "listen"
    /\ runs' = 0
    /\ UNCHANGED <<links, writes, listeners, records, timers, scrollTimeout,
                   sinceAppend, sinceScroll, burst>>

\* window.addEventListener('scroll', ...);
Listen ==
    /\ pc = "listen"
    /\ listeners' = listeners + 1
    /\ pc' = "ready"
    /\ runs' = 0
    /\ UNCHANGED <<links, writes, observers, records, timers, scrollTimeout,
                   sinceAppend, sinceScroll, burst>>

\* ------------------------------------------------------------------ timers
\* The timer table is a bag of pending timers.  A timer is the setTimeout
\* site that made it, the milliseconds left until it is due, and whether the
\* variable scrollTimeout holds its handle.  Handles are never reused, so
\* that flag is all of a handle the script can observe.
Timer(site, due, held) == [site |-> site, due |-> due, held |-> held]

Pending == BagToSet(timers)

\* A variant of setTimeout that schedules nothing.
SetTimeoutDropped(ts, site, delay) == ts

\* setTimeout(modifySearchResults, delay), the handle discarded
SetTimeout(ts, site, delay) == ts (+) SetToBag({Timer(site, delay, FALSE)})

\* A variant of clearTimeout that cancels every pending timer.
ClearTimeoutAll(ts) == EmptyBag

\* clearTimeout(scrollTimeout): a no-op while scrollTimeout is undefined or
\* the timer it names has fired
ClearTimeout(ts) ==
    [t \in {u \in BagToSet(ts) : ~u.held} |-> CopiesIn(t, ts)]

\* scrollTimeout = setTimeout(modifySearchResults, delay): the variable now
\* names the new timer and no other
SetScrollTimeout(ts, delay) ==
    LET Let(t) == [t EXCEPT !.held = FALSE]
        rest == [t \in {Let(u) : u \in BagToSet(ts)} |->
                    CopiesIn(t, ts) + CopiesIn([t EXCEPT !.held = TRUE], ts)]
    IN  rest (+) SetToBag({Timer("scroll", delay, TRUE)})

\* a task may start only when the microtask queue is empty
Idle == pc = "ready" /\ records = <<>>

\* ------------------------------------------------------------ the observer
\* A variant of the condition that accepts every childList record.
QualifiesAnyChildList(m) == m.type = "childList"

\* the condition mutation.type === 'childList' && mutation.addedNodes.length > 0
Qualifies(m) == m.type = "childList" /\ m.addedNodes > 0

\* A variant of shouldModify that looks at removedNodes.
ShouldModifyOnRemoval(ms) ==
    \E i \in 1..Len(ms) : ms[i].type = "childList" /\ ms[i].removedNodes > 0

ShouldModify(ms) == \E i \in 1..Len(ms) : Qualifies(ms[i])

\* the MutationObserver callback, run with the queued records
ObserverCallback ==
    /\ pc = "ready"
    /\ observers > 0
    /\ records # <<>>
    /\ timers' = IF ShouldModify(records)
                 THEN SetTimeout(timers, "mutation", MutationDelay)
                 ELSE timers
    /\ records' = <<>>
    /\ runs' = 0
    /\ UNCHANGED <<pc, links, writes, observers, listeners, scrollTimeout,
                   sinceAppend, sinceScroll, burst>>

\* ------------------------------------------------------- the scroll listener
\* A variant of the listener without clearTimeout.
ScrollHandlerNoClear ==
    /\ timers' = SetScrollTimeout(timers, ScrollDelay)
    /\ scrollTimeout' = "handle"

ScrollHandler ==
    /\ timers' = SetScrollTimeout(ClearTimeout(timers), ScrollDelay)
    /\ scrollTimeout' = "handle"

ScrollEvent ==
    /\ Idle
    /\ listeners > 0
    /\ BagCardinality(ClearTimeout(timers)) < MaxTimers
    /\ ScrollHandler
    /\ sinceScroll' = 0
    /\ burst' = Capped(burst + 1)
    /\ runs' = 0
    /\ UNCHANGED <<pc, links, writes, observers, listeners, records, sinceAppend>>

\* ------------------------------------------------------------ timer firing
\* a due timer runs its callback, modifySearchResults
TimerFires(t) ==
    /\ Idle
    /\ BagIn(t, timers)
    /\ t.due = 0
    /\ Rescan
    /\ timers' = timers (-) SetToBag({t})
    /\ burst' = IF t.site = "scroll" THEN 0 ELSE burst
    /\ sinceScroll' = IF t.site = "scroll" THEN ScrollCap ELSE sinceScroll
    /\ UNCHANGED <<pc, observers, listeners, scrollTimeout, sinceAppend>>

\* ---------------------------------------------------------------- the page
\* the page appends the anchor e under document.body
AppendNode(e) ==
    /\ pc = "ready"
    /\ ~links[e].inDoc
    /\ Len(records) < MaxRecords
    /\ BagCardinality(timers) < MaxTimers
    /\ links' = [links EXCEPT ![e].inDoc = TRUE]
    /\ records' = records \o Observed(<<ChildListRecord(1, 0)>>)
    /\ sinceAppend' = [sinceAppend EXCEPT
                            ![e] = IF HasMarker(links[e]) THEN AppendCap ELSE 0]
    /\ runs' = 0
    /\ UNCHANGED <<pc, writes, observers, listeners, timers, scrollTimeout,
                   sinceScroll, burst>>

\* the page removes the anchor e from the document
RemoveNode(e) ==
    /\ pc = "ready"
    /\ links[e].inDoc
    /\ Len(records) < MaxRecords
    /\ links' = [links EXCEPT ![e].inDoc = FALSE]
    /\ records' = records \o Observed(<<ChildListRecord(0, 1)>>)
    /\ sinceAppend' = [sinceAppend EXCEPT ![e] = AppendCap]
    /\ runs' = 0
    /\ UNCHANGED <<pc, writes, observers, listeners, timers, scrollTimeout,
                   sinceScroll, burst>>

\* other code of the page resets the target and rel of the anchor e
ExternalReset(e) ==
    /\ Idle
    /\ links[e].target # "" \/ links[e].rel # ""
    /\ links' = [links EXCEPT ![e].target = "", ![e].rel = ""]
    /\ records' = records \o Observed(AttributeRecords(2))
    /\ runs' = 0
    /\ UNCHANGED <<pc, writes, observers, listeners, timers,
                   scrollTimeout, sinceAppend, sinceScroll, burst>>

\* -------------------------------------------------------------------- time
Earlier(t) == [t EXCEPT !.due = t.due - Quantum]
Later(t) == [t EXCEPT !.due = t.due + Quantum]

\* Quantum milliseconds pass; a due timer and a queued record run first
Tick ==
    /\ Idle
    /\ \A t \in Pending : t.due > 0
    /\ timers' = [t \in {Earlier(u) : u \in Pending} |-> CopiesIn(Later(t), timers)]
    /\ sinceAppend' = [e \in Elems |-> Min(sinceAppend[e] + Quantum, AppendCap)]
    /\ sinceScroll' = Min(sinceScroll + Quantum, ScrollCap)
    /\ runs' = 0
    /\ UNCHANGED <<pc, links, writes, observers, listeners, records,
                   scrollTimeout, burst>>

\* -------------------------------------------------------------------- Next
Next ==
    \/ InitialScan
    \/ Observe
    \/ Listen
    \/ ObserverCallback
    \/ ScrollEvent
    \/ \E t \in Pending : TimerFires(t)
    \/ \E e \in Elems : AppendNode(e)
    \/ \E e \in Elems : RemoveNode(e)
    \/ Tick

Spec == Init /\ [][Next]_vars

NextExt == Next \/ \E e \in Elems : ExternalReset(e)

SpecExt == Init /\ [][NextExt]_vars

\* ---------------------------------------------------------------- liveness
\* the href attributes that the page gives an anchor after it has inserted it
LiveHrefAttrs == {NoHref, Href(<<"https://", "example.com", "/page">>)}

\* other code of the page sets or removes the href attribute of the anchor e
SetAttr(e, a) ==
    /\ Idle
    /\ links[e].attr # a
    /\ links' = [links EXCEPT ![e].attr = a]
    /\ records' = records \o Observed(AttributeRecords(1))
    /\ runs' = 0
    /\ UNCHANGED <<pc, writes, observers, listeners, timers,
                   scrollTimeout, sinceAppend, sinceScroll, burst>>

\* the documents whose anchors are all matched by a[jsname]
InitLive ==
    /\ Init
    /\ \A e \in Elems : links[e].structural /\ links[e].attr \in LiveHrefAttrs

NextAttr == Next \/ \E e \in Elems : \E a \in LiveHrefAttrs : SetAttr(e, a)

\* the event loop runs the script to its end, delivers queued records, runs
\* the callback of a timer that is due, and time passes
Fairness ==
    /\ WF_vars(InitialScan \/ Observe \/ Listen)
    /\ WF_vars(ObserverCallback)
    /\ WF_vars(\E t \in Pending : TimerFires(t))
    /\ WF_vars(Tick)

SpecLive == InitLive /\ [][NextAttr]_vars /\ Fairness

\* ================================================================= claims
\* a step that is a run of modifySearchResults (every other step resets runs)
IsRun == runs' > 0

\* the element as the three assignments leave it
Rewritten(l) ==
    [l EXCEPT !.target = Blank, !.rel = NoOpener,
              !.classList = l.classList \cup {Marker}]

\* C1: in every reachable state, every element that carries the marker class
\* has target "_blank" and rel "noopener noreferrer".
MarkerImpliesAttributes ==
    \A e \in Elems :
        HasMarker(links[e]) =>
            links[e].target = Blank /\ links[e].rel = NoOpener

\* a run has just marked an element
MarkedByRun == runs > 0 /\ \E e \in Elems : HasMarker(links[e]) /\ writes[e] = 1

\* C2: no element is mutated twice and none returns to unseen: the script has
\* written each element at most once, and an element it has written carries
\* the marker ever after.
MutatedAtMostOnce ==
    \A e \in Elems :
        /\ writes[e] <= 1
        /\ writes[e] = 1 <=> HasMarker(links[e])

\* an element that both selectors match has been through two runs in a row
BothSelectorsRescanned ==
    /\ runs = 2
    /\ \E e \in Elems :
          /\ InSearchLinks(links[e])
          /\ InImageLinks(links[e])
          /\ writes[e] = 1

\* C3: a run of modifySearchResults that directly follows another run, the
\* document unchanged in between, mutates no element and leaves every
\* element's target, rel and marker as the first run left them.
SecondRunChangesNothing ==
    [][runs' = 2 => links' = links /\ writes' = writes]_vars

\* two runs in a row over a document that holds a processed link
TwoRunsOverProcessedLink ==
    /\ runs = 2
    /\ \E e \in Elems : links[e].inDoc /\ HasMarker(links[e])

\* C4: a run rewrites an element that the general selector matches and the
\* image selector does not iff its resolved URL is non-empty, contains
\* neither "google.com/search" nor "#", and it has no marker; otherwise the
\* run leaves the element as it is.
Pass1RewritesIffEligible ==
    [][IsRun =>
        \A e \in Elems :
            InSearchLinks(links[e]) /\ ~InImageLinks(links[e]) =>
                IF /\ ResolvedHref(links[e].attr) # <<>>
                   /\ ~Includes(ResolvedHref(links[e].attr), SearchEndpoint)
                   /\ ~Includes(ResolvedHref(links[e].attr), Fragment)
                   /\ Marker \notin links[e].classList
                THEN links'[e] = Rewritten(links[e]) /\ writes'[e] = writes[e] + 1
                ELSE links'[e] = links[e] /\ writes'[e] = writes[e]]_vars

\* a run has just rewritten a general-only link
GeneralLinkRewritten ==
    /\ runs = 1
    /\ \E e \in Elems :
          /\ InSearchLinks(links[e])
          /\ ~InImageLinks(links[e])
          /\ links[e].target = Blank
          /\ writes[e] = 1

\* the resolved URL of e points to the search endpoint / holds a fragment
SelfLink(e) == Includes(ResolvedHref(links[e].attr), SearchEndpoint)
FragmentLink(e) == Includes(ResolvedHref(links[e].attr), Fragment)

\* the script has never written e
Untouched(e) ==
    writes[e] = 0 /\ ~HasMarker(links[e]) /\ links[e].target # Blank

\* C5 as stated: a link whose resolved URL contains "google.com/search" is
\* never mutated, whichever selectors match it.
SelfLinkNeverMutated == \A e \in Elems : SelfLink(e) => Untouched(e)

\* C5: a link whose resolved URL contains "google.com/search" is never
\* mutated unless its href attribute contains "/imgres", that is unless the
\* image selector matches it.
SelfLinkMutatedOnlyAsImage ==
    \A e \in Elems :
        SelfLink(e) /\ ~AttrContains(links[e].attr, ImgRes) => Untouched(e)

\* a run has just passed over a general link to the search endpoint
SelfLinkScanned ==
    /\ runs > 0
    /\ \E e \in Elems :
          InSearchLinks(links[e]) /\ ~InImageLinks(links[e]) /\ SelfLink(e)

\* C6 as stated: a link whose resolved URL contains "#" is never mutated,
\* whichever selectors match it.
FragmentLinkNeverMutated == \A e \in Elems : FragmentLink(e) => Untouched(e)

\* C6: a link whose resolved URL contains "#" is never mutated unless its
\* href attribute contains "/imgres", that is unless the image selector
\* matches it.
FragmentLinkMutatedOnlyAsImage ==
    \A e \in Elems :
        FragmentLink(e) /\ ~AttrContains(links[e].attr, ImgRes) => Untouched(e)

\* a run has just passed over a general link with a fragment
FragmentLinkScanned ==
    /\ runs > 0
    /\ \E e \in Elems :
          InSearchLinks(links[e]) /\ ~InImageLinks(links[e]) /\ FragmentLink(e)

\* C7: a run leaves every link that carries the marker exactly as it is, also
\* when the page has reset the link's target and rel since it was marked.
MarkedLinkLeftAlone ==
    [][IsRun =>
        \A e \in Elems :
            HasMarker(links[e]) =>
                links'[e] = links[e] /\ writes'[e] = writes[e]]_vars

\* a run has just passed over a marked link whose attributes were reset
ResetLinkScanned ==
    /\ runs > 0
    /\ \E e \in Elems :
          /\ InSearchLinks(links[e]) \/ InImageLinks(links[e])
          /\ HasMarker(links[e])
          /\ links[e].target = ""
          /\ links[e].rel = ""

\* C8: every anchor of the document whose href attribute contains "/imgres"
\* and that has no marker when a run starts has target "_blank", rel
\* "noopener noreferrer" and the marker when the run returns, whatever its URL.
ImageLinkAlwaysRewritten ==
    [][IsRun =>
        \A e \in Elems :
            InImageLinks(links[e]) /\ Marker \notin links[e].classList =>
                /\ links'[e].target = Blank
                /\ links'[e].rel = NoOpener
                /\ Marker \in links'[e].classList]_vars

\* a run has just rewritten an image link to the search endpoint
ImageSelfLinkRewritten ==
    /\ runs > 0
    /\ \E e \in Elems :
          InImageLinks(links[e]) /\ SelfLink(e) /\ writes[e] = 1

\* e would be rewritten by a run if it carried no marker
Qualifying(l) ==
    LET u == [l EXCEPT !.classList = {}]
    IN  (InSearchLinks(u) /\ Pass1Eligible(u)) \/ InImageLinks(u)

NoneDue == \A t \in Pending : t.due > 0

\* C9 as stated: a qualifying anchor appended under document.body is
\* unmutated at every instant before 100 ms have passed since the append, and
\* mutated once they have passed.
AppendedUnmutatedUntilWindowEnd ==
    \A e \in Elems :
        pc = "ready" /\ links[e].inDoc /\ Qualifying(links[e]) =>
            /\ sinceAppend[e] < MutationDelay => ~HasMarker(links[e])
            /\ sinceAppend[e] >= MutationDelay /\ NoneDue => HasMarker(links[e])

\* C9: the rescan that the append of a qualifying anchor schedules is pending
\* until 100 ms have passed since the append, and the anchor is mutated once
\* they have passed and the due timers have run; before that the anchor is
\* unmutated or was mutated by a rescan that an earlier mutation batch or
\* scroll event had scheduled (the anchor's own rescan is still pending).
AppendedMutatedByWindowEnd ==
    \A e \in Elems :
        pc = "ready" /\ links[e].inDoc /\ Qualifying(links[e]) =>
            /\ sinceAppend[e] < MutationDelay =>
                  \/ ShouldModify(records)
                  \/ \E t \in Pending :
                        t.site = "mutation" /\ t.due = MutationDelay - sinceAppend[e]
            /\ sinceAppend[e] >= MutationDelay /\ NoneDue => HasMarker(links[e])

\* 100 ms after its append, the rescans due have run and the appended anchor
\* is mutated
AppendedAnchorMutated ==
    /\ runs > 0
    /\ NoneDue
    /\ \E e \in Elems :
          /\ links[e].inDoc
          /\ sinceAppend[e] = MutationDelay
          /\ HasMarker(links[e])
          /\ writes[e] = 1

\* the pending timers that the scroll listener made
ScrollTimers == {t \in Pending : t.site = "scroll"}

\* C10: at most one scroll timer is pending; while a burst of scroll events
\* awaits its rescan exactly one is, the one the last event made, due 200 ms
\* after that event; once it has fired none is pending, so the burst causes
\* one rescan.
ScrollDebounce ==
    /\ \A t \in ScrollTimers : CopiesIn(t, timers) = 1
    /\ Cardinality(ScrollTimers) <= 1
    /\ burst > 0 <=> ScrollTimers # {}
    /\ \A t \in ScrollTimers : t.held /\ t.due = ScrollDelay - sinceScroll

\* the rescan of a burst of several scroll events is due, 200 ms after the
\* last of them
BurstRescanDue ==
    /\ burst = 2
    /\ sinceScroll = ScrollDelay
    /\ \E t \in ScrollTimers : t.due = 0


\* the pending timers scheduled by the observer callback, with multiplicity
MutationTimers(ts) ==
    [t \in {u \in BagToSet(ts) : u.site = "mutation"} |-> ts[t]]

\* C11: a burst of qualifying mutation batches inside one debounce window
\* coalesces into a single deferred rescan: at most one timer scheduled by
\* the observer callback is pending at any time.
MutationDebounceCoalesces == BagCardinality(MutationTimers(timers)) <= 1


\* e is in the document, eligible and unmarked after the run at load
Missed(e) ==
    pc = "ready" /\ links[e].inDoc /\ Qualifying(links[e]) /\ ~HasMarker(links[e])

\* e is rewritten, or is no longer in the document or no longer eligible
Settled(e) ==
    HasMarker(links[e]) \/ ~links[e].inDoc \/ ~Qualifying(links[e])

\* the user stops scrolling
ScrollingStops == <>[][~ScrollEvent]_vars

\* C12 as stated: a link that is eligible and unmarked after some rescan and
\* stays eligible is eventually rewritten, given that pending timers
\* eventually fire.
MissedEventuallyRewritten ==
    ScrollingStops => \A e \in Elems : Missed(e) ~> Settled(e)

\* C12: a link that is eligible and unmarked after some rescan and stays
\* eligible is eventually rewritten if a timer scheduled by the observer
\* callback is pending or a qualifying batch awaits delivery, or if any
\* timer is pending and the scroll events stop, given that pending timers
\* eventually fire.
MissedRewrittenByPendingRescan ==
    /\ \A e \in Elems :
          (/\ Missed(e)
           /\ \/ ShouldModify(records)
              \/ BagCardinality(MutationTimers(timers)) > 0) ~> Settled(e)
    /\ ScrollingStops =>
          \A e \in Elems : (Missed(e) /\ timers # EmptyBag) ~> Settled(e)

\* a link that the rescan of its own insertion has missed is eligible and
\* unmarked while a rescan is due
MissedLinkAwaitsRescan ==
    \E e \in Elems :
        /\ Missed(e)
        /\ sinceAppend[e] >= MutationDelay
        /\ \E t \in Pending : t.due = 0


\* a step that delivers the queued records to the observer callback
IsDelivery == records # <<>> /\ records' = <<>>

\* C13: the delivery of a mutation batch schedules one rescan, MutationDelay
\* later, if and only if one of its records is a childList record with a
\* non-empty addedNodes list; otherwise (a batch of removals only) it
\* schedules no timer; in neither case does the delivery itself run a rescan.
BatchSchedulesIffNodesAdded ==
    [][IsDelivery =>
          /\ ~IsRun
          /\ links' = links
          /\ IF \E i \in 1..Len(records) :
                    records[i].type = "childList" /\ records[i].addedNodes > 0
             THEN timers' = timers (+) SetToBag({Timer("mutation", MutationDelay, FALSE)})
             ELSE timers' = timers]_vars

\* an anchor has been removed from the document, its batch has been
\* delivered and no timer is pending
RemovalBatchDelivered ==
    /\ pc = "ready"
    /\ records = <<>>
    /\ timers = EmptyBag
    /\ runs = 0
    /\ \E e \in Elems : ~links[e].inDoc /\ HasMarker(links[e])


\* the bag b after Quantum milliseconds
Aged(b) == [t \in {Earlier(u) : u \in BagToSet(b)} |-> CopiesIn(Later(t), b)]

\* C14: a pending timer scheduled by the observer callback is never
\* cancelled.  Such a timer is made by the delivery of a qualifying batch
\* with MutationDelay to run, only the passage of time brings it nearer, no
\* time passes while it is due, and it leaves the timer table only when it
\* is due and by a run of modifySearchResults; so k qualifying batches cause
\* k rescans, each MutationDelay after its batch.  A scroll event leaves
\* every such timer as it is.
MutationTimersNeverCancelled ==
    [][LET M == MutationTimers(timers)
           N == MutationTimers(timers')
       IN  /\ \/ N = M
              \/ /\ IsDelivery
                 /\ N = M (+) SetToBag({Timer("mutation", MutationDelay, FALSE)})
              \/ /\ IsRun
                 /\ \E t \in BagToSet(M) : t.due = 0 /\ N = M (-) SetToBag({t})
              \/ /\ ~IsRun
                 /\ \A t \in Pending : t.due > 0
                 /\ N = Aged(M)
           /\ ScrollEvent => N = M]_vars

\* a timer scheduled by the observer callback is still pending, with less
\* than MutationDelay to run, just after a later scroll event has replaced
\* the scroll timer
MutationTimerSurvivesScroll ==
    /\ sinceScroll = 0
    /\ \E m \in Pending : m.site = "mutation" /\ m.due < MutationDelay
    /\ \E t \in Pending : t.site = "scroll" /\ t.due = ScrollDelay /\ t.held


\* C15: a run of modifySearchResults changes only the target, the rel and
\* the marker class of the elements it finds eligible: it changes no href,
\* adds and removes no node, and leaves every ineligible or unmatched element
\* as it was.
RunFrameCondition ==
    [][IsRun =>
          \A e \in Elems :
              /\ links'[e].attr = links[e].attr
              /\ links'[e].inDoc = links[e].inDoc
              /\ links'[e].structural = links[e].structural
              /\ IF Qualifying(links[e]) /\ ~HasMarker(links[e])
                 THEN links'[e] = Rewritten(links[e])
                 ELSE links'[e] = links[e]]_vars

\* the run of a timer has rewritten an appended redirect link, whose href is
\* as it was
RunKeptHref ==
    /\ pc = "ready"
    /\ runs > 0
    /\ \E e \in Elems :
          /\ links[e].inDoc
          /\ AttrContains(links[e].attr, UrlQ)
          /\ HasMarker(links[e])
          /\ writes[e] = 1
          /\ sinceAppend[e] = MutationDelay


\* every eligible link of the document has been rewritten, once
AllRewritten ==
    \A e \in Elems :
        links[e].inDoc /\ Qualifying(links[e]) =>
            HasMarker(links[e]) /\ writes[e] = 1

\* C16: modifySearchResults runs once when the script loads, before the
\* observer and the scroll listener are registered and while no timer and no
\* record exists, so that every eligible link of the initial document is
\* rewritten before anything else happens; the observer and the scroll
\* listener are registered once each, in that order.
StartupOrder ==
    /\ pc = "scan" =>
          /\ observers = 0 /\ listeners = 0 /\ runs = 0
          /\ \A e \in Elems : writes[e] = 0
    /\ pc = "observe" => observers = 0 /\ listeners = 0 /\ runs = 1
    /\ pc = "listen" => observers = 1 /\ listeners = 0
    /\ pc = "ready" => observers = 1 /\ listeners = 1
    /\ pc # "ready" =>
          /\ timers = EmptyBag /\ records = <<>> /\ scrollTimeout = "undefined"
          /\ \A e \in Elems : sinceAppend[e] = AppendCap
    /\ pc \in {"observe", "listen"} => AllRewritten

\* the run at load has rewritten a link of the initial document and the
\* observer is not yet registered
RewrittenBeforeObserve ==
    /\ pc = "observe"
    /\ observers = 0
    /\ \E e \in Elems : links[e].inDoc /\ HasMarker(links[e]) /\ writes[e] = 1


\* the page stops adding nodes and the user stops scrolling
AdditionsAndScrollingStop ==
    <>[][~(ScrollEvent \/ \E e \in Elems : AppendNode(e))]_vars

\* C17: a run of modifySearchResults queues no mutation record and schedules
\* no timer (at most the timer that ran it leaves the table), so a rescan
\* never causes another; and once node additions and scroll events stop, the
\* pending timers fire and the system stays in a state with no pending
\* timer, no queued record and no further run.
NoSelfTriggerAndQuiescence ==
    /\ [][IsRun =>
             /\ records' = records
             /\ \/ timers' = timers
                \/ \E t \in Pending : timers' = timers (-) SetToBag({t})]_vars
    /\ AdditionsAndScrollingStop =>
          <>[](timers = EmptyBag /\ records = <<>> /\ runs = 0)

\* the timers of an append and of a scroll event have fired, the last run
\* has written the attributes of a link, and nothing is queued or pending
RunLeftNothingPending ==
    /\ pc = "ready"
    /\ runs > 0
    /\ records = <<>>
    /\ timers = EmptyBag
    /\ scrollTimeout = "handle"
    /\ \E e \in Elems :
          /\ links[e].inDoc /\ HasMarker(links[e])
          /\ sinceAppend[e] >= MutationDelay

====
